---------------------------- MODULE Spec2Model ----------------------------
(***************************************************************************)
(* jack_cat: streaming of JACK audio periods between the process callback  *)
(* and a disk thread through a jack ringbuffer (src/jack_cat.c).           *)
(*                                                                         *)
(* Threads: the JACK process callback (jack_capture_callback or            *)
(* jack_playback_callback), the disk thread (disk_write or disk_read),     *)
(* the main thread, and the asynchronous signal handlers.                  *)
(*                                                                         *)
(* Bytes are integers.  0 is a zero byte; the header bytes are ASCII       *)
(* codes; frame data bytes are tokens >= DataBase, one token per byte of   *)
(* the offered sample stream, so that a lost, duplicated or reordered      *)
(* byte is visible.                                                        *)
(***************************************************************************)
EXTENDS Integers, Sequences, FiniteSets, TLC

(* ---------------------------- program constants ------------------------ *)
MAX_PORTS == 32
FILE_HEADER_LEN == 6
CFG_CAPTURE == 1
CFG_PLAYBACK == 2
SampleSize == 4

(* ------------------------------- bounds -------------------------------- *)
MaxCalls == 3
MaxFileFrames == 3

(* ------------------------- the sessions explored ----------------------- *)
PortCounts == {1, 2}
PeriodSizes == {1, 2}
RbSizes == {6, 16}
BlockSizes == {3, 16}
ShortBudgets == {0, 1}
DataBase == 2 ^ 8

(* the byte token for memory the program never initialised *)
Garbage == DataBase - 1

VARIABLES
    cfg,        \* struct config: io, ports, blocksize, rbsize
    nframes,    \* the period size JACK passes to the process callback
    partial_io, \* how many more read()/write() calls may transfer less than asked
    status,     \* struct status
    buffer,     \* jack_ringbuffer_t: size, buf, write_ptr, read_ptr
    wr_total,   \* bytes the producer has committed since creation
    rd_total,   \* bytes the consumer has released since creation
    disk_mutex, \* owner of disk_mutex: "free" or "disk"
    disk,       \* the disk thread: pc and the locals l and r (w in disk_write)
    cancel,     \* pthread_cancel(disk_thread) has been requested
    file,       \* the bytes of the file
    file_pos,   \* the read offset of the descriptor opened by disk_read
    jack,       \* the JACK client: active, pc of the callback, its local space
    cbd,        \* struct callbackdata: ready, buf (per port, this period)
    main_pc,    \* position of main()
    played,     \* the bytes delivered to the ports by periods without underrun
    hist        \* the session, the short transfers it started with, the
                \* length of the header the file was given, the bytes the
                \* producer had committed when a handler first set stop
                \* (-1 before), and of the capture session the calls
                \* accepted and the calls made

vars == <<cfg, nframes, partial_io, status, buffer, wr_total, rd_total,
          disk_mutex, disk, cancel, file, file_pos, jack, cbd, main_pc,
          played, hist>>

(* ------------------------------ helpers -------------------------------- *)
Min(a, b) == IF a < b THEN a ELSE b

RECURSIVE Flatten(_)
Flatten(ss) == IF ss = << >> THEN << >> ELSE Head(ss) \o Flatten(Tail(ss))

RECURSIVE DecimalDigits(_)
(* the characters "%d" prints for n >= 0 *)
DecimalDigits(n) ==
    IF n < 10 THEN <<48 + n>> ELSE DecimalDigits(n \div 10) \o <<48 + (n % 10)>>

(* sprintf(label, "JACK%1d", ports): the characters stored before the NUL *)
HeaderText(ports) == <<74, 65, 67, 75>> \o DecimalDigits(ports)

HeaderBytesTwice(ports) ==
    HeaderText(ports) \o <<0>> \o HeaderText(ports) \o <<0>>

(* write(fd, label, n+1): the text and the byte after it *)
HeaderBytes(ports) == HeaderText(ports) \o <<0>>

(* sprintf stores n+1 bytes into char label[FILE_HEADER_LEN] *)
LabelOverflows(ports) == Len(HeaderText(ports)) + 1 > FILE_HEADER_LEN

(* --------------------------- jack ringbuffer --------------------------- *)
RECURSIVE PowerOfTwo(_, _)
(* for (power_of_two = 1; 1 << power_of_two < sz; power_of_two++); *)
PowerOfTwo(p, sz) == IF 2 ^ p < sz THEN PowerOfTwo(p + 1, sz) ELSE p

jack_ringbuffer_create(sz) ==
    LET size == 2 ^ PowerOfTwo(1, sz)
    IN  [size |-> size, buf |-> [i \in 0..(size - 1) |-> 0],
         write_ptr |-> 0, read_ptr |-> 0]

jack_ringbuffer_read_space(rb) ==
    IF rb.write_ptr > rb.read_ptr
    THEN rb.write_ptr - rb.read_ptr
    ELSE (rb.write_ptr - rb.read_ptr + rb.size) % rb.size

WriteSpaceWholeRing(rb) ==
    ((rb.read_ptr - rb.write_ptr + rb.size - 1) % rb.size) + 1

(* jack_ringbuffer_write_space: one byte of the ring is never used *)
jack_ringbuffer_write_space(rb) ==
    IF rb.write_ptr > rb.read_ptr
    THEN ((rb.read_ptr - rb.write_ptr + rb.size) % rb.size) - 1
    ELSE IF rb.write_ptr < rb.read_ptr
         THEN (rb.read_ptr - rb.write_ptr) - 1
         ELSE rb.size - 1

(* vec[0].len of jack_ringbuffer_get_read_vector *)
ReadVectorLen(rb) ==
    LET free_cnt == jack_ringbuffer_read_space(rb)
    IN  IF rb.read_ptr + free_cnt > rb.size THEN rb.size - rb.read_ptr ELSE free_cnt

(* vec[0].len of jack_ringbuffer_get_write_vector *)
WriteVectorLen(rb) ==
    LET free_cnt == jack_ringbuffer_write_space(rb)
    IN  IF rb.write_ptr + free_cnt > rb.size THEN rb.size - rb.write_ptr ELSE free_cnt

(* the bytes at buf[from], buf[from+1], ..., n of them, wrapping at size *)
BufBytes(rb, from, n) == [k \in 1..n |-> rb.buf[(from + k - 1) % rb.size]]

(* rb.buf with bytes stored from index from on, wrapping at size *)
BufStore(rb, from, bytes) ==
    [i \in 0..(rb.size - 1) |->
        LET k == (i - from + rb.size) % rb.size
        IN  IF k < Len(bytes) THEN bytes[k + 1] ELSE rb.buf[i]]

(* jack_ringbuffer_write: copies min(cnt, write space) bytes *)
jack_ringbuffer_write(rb, src) ==
    LET to_write == Min(Len(src), jack_ringbuffer_write_space(rb))
    IN  [rb EXCEPT !.buf = BufStore(rb, rb.write_ptr, SubSeq(src, 1, to_write)),
                   !.write_ptr = (rb.write_ptr + to_write) % rb.size]

(* jack_ringbuffer_read: the ring after copying out min(cnt, read space) bytes *)
jack_ringbuffer_read(rb, cnt) ==
    LET to_read == Min(cnt, jack_ringbuffer_read_space(rb))
    IN  [rb EXCEPT !.read_ptr = (rb.read_ptr + to_read) % rb.size]

(* the bytes jack_ringbuffer_read(rb, dest, cnt) stores in dest *)
ReadBytes(rb, cnt) ==
    BufBytes(rb, rb.read_ptr, Min(cnt, jack_ringbuffer_read_space(rb)))

jack_ringbuffer_read_advance(rb, cnt) ==
    [rb EXCEPT !.read_ptr = (rb.read_ptr + cnt) % rb.size]

jack_ringbuffer_write_advance(rb, cnt) ==
    [rb EXCEPT !.write_ptr = (rb.write_ptr + cnt) % rb.size]

(* ------------------------------ samples -------------------------------- *)
(* bytes this period needs in the ring:                                     *)
(* nframes * sizeof(jack_default_audio_sample_t) * nports                   *)
PeriodBytes == nframes * SampleSize * cfg.ports

(* The sample JACK offers on port i (0-based) in frame f (0-based) of the   *)
(* call-th invocation (1-based): four byte tokens.                          *)
InputSample(call, f, i) ==
    LET s == ((call - 1) * nframes + f) * cfg.ports + i
    IN  [b \in 1..SampleSize |-> DataBase + SampleSize * s + (b - 1)]

(* jack_port_get_buffer(cbd->ports[i], nframes): the nframes samples of    *)
(* the period on a registered port; through a handle setup_jack has not    *)
(* stored yet, memory of unknown content                                   *)
InputBuffer(call, i) ==
    [f \in 1..nframes |->
        IF i < cbd.ports THEN InputSample(call, f - 1, i)
        ELSE [b \in 1..SampleSize |-> Garbage]]

(* What the use of cbd->ports[0 .. nports-1] can do: the handles are all   *)
(* registered ports, or some are what malloc left in the structure, and    *)
(* then the call faults or goes on with memory of unknown content.         *)
HandleOutcomes ==
    IF cbd.ports < cfg.ports THEN {"fault", "garbage"} ELSE {"valid"}

RECURSIVE CaptureLoopPlanar(_, _, _, _)
CaptureLoopPlanar(rb, bufs, f, i) ==
    IF i >= cfg.ports THEN rb
    ELSE IF f >= nframes THEN CaptureLoopPlanar(rb, bufs, 0, i + 1)
    ELSE CaptureLoopPlanar(jack_ringbuffer_write(rb, bufs[i][f + 1]), bufs, f + 1, i)

RECURSIVE CaptureLoop(_, _, _, _)
(* for (f...) for (i...) jack_ringbuffer_write(buffer, cbd->buf[i]++, 4)    *)
CaptureLoop(rb, bufs, f, i) ==
    IF f >= nframes THEN rb
    ELSE IF i >= cfg.ports THEN CaptureLoop(rb, bufs, f + 1, 0)
    ELSE CaptureLoop(jack_ringbuffer_write(rb, bufs[i][f + 1]), bufs, f, i + 1)

RECURSIVE PlaybackLoop(_, _, _, _)
(* for (f...) for (i...) jack_ringbuffer_read(buffer, cbd->buf[i]++, 4):    *)
(* the ring and the port buffers after the loops                            *)
PlaybackLoop(st, bufs, f, i) ==
    IF f >= nframes THEN [rb |-> st, buf |-> bufs]
    ELSE IF i >= cfg.ports THEN PlaybackLoop(st, bufs, f + 1, 0)
    ELSE LET got == ReadBytes(st, SampleSize)
             smp == [b \in 1..SampleSize |->
                        IF b <= Len(got) THEN got[b] ELSE bufs[i][f + 1][b]]
         IN  PlaybackLoop(jack_ringbuffer_read(st, SampleSize),
                          [bufs EXCEPT ![i][f + 1] = smp], f, i + 1)

ZeroSample == [b \in 1..SampleSize |-> 0]

ZeroFillStale == cbd.buf

(* memset(cbd->buf[i], 0, sizeof(sample) * nframes) for every port *)
ZeroFill == [i \in 0..(cfg.ports - 1) |-> [f \in 1..nframes |-> ZeroSample]]

(* what the ports carry, frame by frame and port by port within a frame *)
Interleaved(bufs) ==
    Flatten([k \in 1..(nframes * cfg.ports) |->
                bufs[(k - 1) % cfg.ports][((k - 1) \div cfg.ports) + 1]])

(* the frame data of a file of k frames: the offered stream, in order *)
FrameData(k, ports) == [j \in 1..(k * ports * SampleSize) |-> DataBase + (j - 1)]

TooLittleOffByOne(space, bytes) == space <= bytes

(* space < nframes * sizeof(jack_default_audio_sample_t) * nports *)
TooLittle(space, bytes) == space < bytes

ChunkLenUnclamped(veclen, blocksize) == blocksize

(* if (l > c->blocksize) l = c->blocksize *)
ChunkLen(veclen, blocksize) == IF veclen > blocksize THEN blocksize ELSE veclen

(* ------------------------------- Init ---------------------------------- *)
InitStatus ==
    [jack_calls |-> 0, disk_io |-> 0, disk_bytes |-> 0, overflows |-> 0,
     underruns |-> 0, stop |-> 0, eof |-> 0]

(* The state main() has built when start_io has created the disk thread.   *)
Session(io, ports, bs, rbs, nf, pio, e, f, h) ==
    /\ cfg = [io |-> io, ports |-> ports, blocksize |-> bs, rbsize |-> rbs]
    /\ nframes = nf
    /\ partial_io = pio
    /\ status = InitStatus
    /\ buffer = jack_ringbuffer_create(rbs)
    /\ wr_total = 0
    /\ rd_total = 0
    /\ disk_mutex = "free"
    /\ disk = [pc |-> "open", l |-> 0, r |-> 0]
    /\ cancel = FALSE
    /\ file = f
    /\ file_pos = 0
    /\ jack = [active |-> FALSE, pc |-> "idle", space |-> 0,
               early |-> e.early, refuse |-> e.refuse]
    /\ cbd = [ready |-> 0, ports |-> 0,
              buf |-> [i \in 0..(ports - 1) |-> [k \in 1..nf |-> ZeroSample]]]
    /\ main_pc = "setup"
    /\ played = << >>
    /\ hist = h

(* The sessions with a short transfer to come use the small block size and *)
(* the small ring.                                                         *)
ShortBudget(bs, rbs) ==
    IF bs < 2 * SampleSize /\ rbs < 2 * SampleSize THEN ShortBudgets ELSE {0}

(* What JACK does during setup_jack: early is the number of process cycles *)
(* it may run before setup_jack has returned, refuse the request it turns  *)
(* down, if any.                                                           *)
QuietSetup == [early |-> 0, refuse |-> "none"]

SetupPlans ==
    {QuietSetup,
     [early |-> 1, refuse |-> "none"],
     [early |-> 0, refuse |-> "noport"],
     [early |-> 0, refuse |-> "noconnect"]}

(* The sessions in which JACK is not quiet during setup use the large      *)
(* block size, the large ring and the short period.                        *)
SetupPlan(bs, rbs, nf) ==
    IF bs >= 2 * SampleSize /\ rbs >= 2 * SampleSize /\ nf = 1
    THEN SetupPlans ELSE {QuietSetup}

(* the sessions with a port count of P, a period of N and a ring of R:     *)
(* the captures, and the playbacks of the files of K frames                *)
Sessions(P, N, R, K) ==
    \E ports \in P, bs \in BlockSizes, rbs \in R, nf \in N :
      \E pio \in ShortBudget(bs, rbs), e \in SetupPlan(bs, rbs, nf) :
        \/ Session(CFG_CAPTURE, ports, bs, rbs, nf, pio, e, << >>,
                   [session |-> "capture", accepted |-> << >>, calls |-> 0,
                    short |-> pio, header |-> 0, mark |-> -1, setup |-> "ok"])
        \/ \E k \in K :
               Session(CFG_PLAYBACK, ports, bs, rbs, nf, pio, e,
                       HeaderBytes(ports) \o FrameData(k, ports),
                       [session |-> "playback", accepted |-> << >>, calls |-> 0,
                        short |-> pio, header |-> Len(HeaderBytes(ports)),
                        mark |-> -1, setup |-> "ok"])

Init == Sessions(PortCounts, PeriodSizes, RbSizes, 0..MaxFileFrames)

(* ----------------------- the wake-up of the disk thread ---------------- *)
(* if (pthread_mutex_trylock(&disk_mutex) == 0) { pthread_cond_signal;     *)
(* pthread_mutex_unlock }: the disk thread after it.  The signal reaches   *)
(* the disk thread only if it is blocked in pthread_cond_wait, and the     *)
(* trylock succeeds only while the disk thread does not hold the mutex.    *)
TryNotify(d) ==
    IF disk_mutex = "free" /\ d.pc = "wait" THEN [d EXCEPT !.pc = "wake"] ELSE d

Alive == disk.pc # "crash" /\ jack.pc # "crash" /\ main_pc # "exit"

Terminated == {"done", "returned", "cancelled"}

(* ---------------------- JACK process callbacks ------------------------- *)
(* JACK runs a process cycle: any time once setup_jack has returned, and   *)
(* before that as often as the session's plan says.                        *)
CycleDue == main_pc # "ports" \/ jack.early > 0

(* the cycles left to JACK before setup_jack returns *)
EarlyLeft == IF main_pc = "ports" THEN jack.early - 1 ELSE jack.early

(* jack_capture_callback up to the trylock *)
JackCaptureProcess ==
    /\ Alive /\ jack.active /\ jack.pc = "idle"
    /\ cfg.io = CFG_CAPTURE
    /\ status.jack_calls < MaxCalls
    /\ CycleDue
    /\ LET call == status.jack_calls + 1
           space == jack_ringbuffer_write_space(buffer)
           bufs == [i \in 0..(cfg.ports - 1) |-> InputBuffer(call, i)]
           rb == CaptureLoop(buffer, bufs, 0, 0)
       IN  IF TooLittle(space, PeriodBytes)
           THEN /\ status' = [status EXCEPT !.jack_calls = call,
                                            !.overflows = @ + 1]
                /\ jack' = [jack EXCEPT !.space = space, !.early = EarlyLeft]
                /\ UNCHANGED <<buffer, wr_total, cbd, hist>>
           ELSE \E outcome \in HandleOutcomes :
                IF outcome = "fault"
                THEN /\ status' = [status EXCEPT !.jack_calls = call]
                     /\ jack' = [jack EXCEPT !.space = space, !.pc = "crash", !.early = EarlyLeft]
                     /\ UNCHANGED <<buffer, wr_total, cbd, hist>>
                ELSE /\ status' = [status EXCEPT !.jack_calls = call]
                     /\ cbd' = [cbd EXCEPT !.buf = bufs]
                     /\ buffer' = rb
                     /\ wr_total' = wr_total
                            + ((rb.write_ptr - buffer.write_ptr + buffer.size)
                                  % buffer.size)
                     /\ jack' = [jack EXCEPT !.space = space, !.pc = "notify",
                                         !.early = EarlyLeft]
                     /\ hist' = [hist EXCEPT !.accepted =
                                   Append(@, [call |-> call, ports |-> cbd.ports])]
    /\ UNCHANGED <<cfg, nframes, partial_io, rd_total, disk_mutex, disk, cancel,
                   file, file_pos, main_pc, played>>

(* jack_playback_callback up to the trylock *)
JackPlaybackProcess ==
    /\ Alive /\ jack.active /\ jack.pc = "idle"
    /\ cfg.io = CFG_PLAYBACK
    /\ status.jack_calls < MaxCalls
    /\ CycleDue
    /\ LET space == jack_ringbuffer_read_space(buffer)
           res == PlaybackLoop(buffer, cbd.buf, 0, 0)
       IN  \E outcome \in HandleOutcomes :
           IF outcome = "fault"
           THEN /\ status' = [status EXCEPT !.jack_calls = @ + 1]
                /\ jack' = [jack EXCEPT !.pc = "crash", !.early = EarlyLeft]
                /\ UNCHANGED <<buffer, rd_total, played, cbd>>
           ELSE IF TooLittle(space, PeriodBytes)
           THEN /\ status' = [status EXCEPT
                                 !.jack_calls = @ + 1,
                                 !.underruns = @ + 1,
                                 !.stop = IF status.eof # 0 THEN 1 ELSE @]
                /\ cbd' = [cbd EXCEPT !.buf = ZeroFill]
                /\ jack' = [jack EXCEPT
                               !.space = space,
                               !.early = EarlyLeft,
                               !.active = IF status.eof # 0 THEN FALSE ELSE @]
                /\ UNCHANGED <<buffer, rd_total, played>>
           ELSE /\ status' = [status EXCEPT !.jack_calls = @ + 1]
                /\ cbd' = [cbd EXCEPT !.buf = res.buf]
                /\ buffer' = res.rb
                /\ rd_total' = rd_total
                       + ((res.rb.read_ptr - buffer.read_ptr + buffer.size) % buffer.size)
                /\ played' = IF outcome = "valid"
                             THEN played \o Interleaved(res.buf)
                             ELSE played
                /\ jack' = [jack EXCEPT !.space = space, !.pc = "notify",
                                         !.early = EarlyLeft]
    /\ UNCHANGED <<cfg, nframes, partial_io, wr_total, disk_mutex, disk, cancel,
                   file, file_pos, main_pc, hist>>

(* the trylock, signal, unlock that ends either callback *)
JackNotifyBlocking ==
    /\ Alive /\ jack.pc = "notify"
    /\ disk_mutex = "free"
    /\ disk' = TryNotify(disk)
    /\ jack' = [jack EXCEPT !.pc = "idle"]
    /\ UNCHANGED <<cfg, nframes, partial_io, status, buffer, wr_total, rd_total,
                   disk_mutex, cancel, file, file_pos, cbd, main_pc, played, hist>>

JackNotify ==
    /\ Alive /\ jack.pc = "notify"
    /\ disk' = TryNotify(disk)
    /\ jack' = [jack EXCEPT !.pc = "idle"]
    /\ UNCHANGED <<cfg, nframes, partial_io, status, buffer, wr_total, rd_total,
                   disk_mutex, cancel, file, file_pos, cbd, main_pc, played, hist>>

(* ----------------------------- disk_write ------------------------------ *)
(* open, sprintf(label, "JACK%1d", ports), write(fd, label, n+1).  With    *)
(* two digits sprintf stores its NUL one byte past label: the write then   *)
(* emits the seven bytes, or the overrun ends the process.                 *)
DiskWriteOpen ==
    /\ Alive /\ disk.pc = "open" /\ ~cancel
    /\ cfg.io = CFG_CAPTURE
    /\ \E outcome \in (IF LabelOverflows(cfg.ports) THEN {"stored", "smashed"}
                                                     ELSE {"stored"}) :
          IF outcome = "stored"
          THEN /\ file' = file \o HeaderBytes(cfg.ports)
               /\ disk' = [disk EXCEPT !.pc = "lock"]
               /\ hist' = [hist EXCEPT !.header = Len(HeaderBytes(cfg.ports))]
          ELSE /\ disk' = [disk EXCEPT !.pc = "crash"]
               /\ UNCHANGED <<file, hist>>
    /\ UNCHANGED <<cfg, nframes, partial_io, status, buffer, wr_total, rd_total,
                   disk_mutex, cancel, file_pos, jack, cbd, main_pc, played>>

(* pthread_mutex_lock(&disk_mutex) before the loop, in either thread body *)
DiskLock ==
    /\ Alive /\ disk.pc = "lock"
    /\ disk_mutex = "free"
    /\ disk_mutex' = "disk"
    /\ disk' = [disk EXCEPT !.pc = "loop"]
    /\ UNCHANGED <<cfg, nframes, partial_io, status, buffer, wr_total, rd_total,
                   cancel, file, file_pos, jack, cbd, main_pc, played, hist>>

(* one test of the loop of disk_write, up to the write or the wait;       *)
(* the mutex is held throughout                                           *)
DiskWriteLoop ==
    /\ Alive /\ disk.pc = "loop"
    /\ cfg.io = CFG_CAPTURE
    /\ LET available == jack_ringbuffer_read_space(buffer)
           veclen == ReadVectorLen(buffer)
           l == ChunkLen(veclen, cfg.blocksize)
       IN  IF status.stop # 0
           THEN /\ disk' = [disk EXCEPT !.pc = "unlock"]
                /\ UNCHANGED <<status, disk_mutex>>
           ELSE IF available > 0
           THEN IF veclen = 0
                THEN UNCHANGED <<disk, status, disk_mutex>>
                ELSE /\ status' = [status EXCEPT !.disk_io = @ + 1,
                                                 !.disk_bytes = @ + l]
                     /\ disk' = [disk EXCEPT !.pc = "io", !.l = l]
                     /\ UNCHANGED disk_mutex
           ELSE /\ disk' = [disk EXCEPT !.pc = "sleep"]
                /\ UNCHANGED <<status, disk_mutex>>
    /\ UNCHANGED <<cfg, nframes, partial_io, buffer, wr_total, rd_total,
                   cancel, file, file_pos, jack, cbd, main_pc, played, hist>>

(* w = write(fd, vec[0].buf, l) *)
DiskWriteFile ==
    /\ Alive /\ disk.pc = "io" /\ ~cancel
    /\ cfg.io = CFG_CAPTURE
    /\ \E w \in (IF partial_io > 0 THEN 1..disk.l ELSE {disk.l}) :
          /\ file' = file \o BufBytes(buffer, buffer.read_ptr, w)
          /\ disk' = [disk EXCEPT !.pc = "adv", !.r = w]
          /\ partial_io' = IF w < disk.l THEN partial_io - 1 ELSE partial_io
    /\ UNCHANGED <<cfg, nframes, status, buffer, wr_total, rd_total,
                   disk_mutex, cancel, file_pos, jack, cbd, main_pc, played, hist>>

(* jack_ringbuffer_read_advance(buffer, l) *)
DiskWriteAdvance ==
    /\ Alive /\ disk.pc = "adv"
    /\ cfg.io = CFG_CAPTURE
    /\ buffer' = jack_ringbuffer_read_advance(buffer, disk.l)
    /\ rd_total' = rd_total + disk.l
    /\ disk' = [disk EXCEPT !.pc = "loop"]
    /\ UNCHANGED <<cfg, nframes, partial_io, status, wr_total, disk_mutex, cancel,
                   file, file_pos, jack, cbd, main_pc, played, hist>>

(* ----------------------------- disk_read ------------------------------- *)
(* open, r = read(fd, label, FILE_HEADER_LEN), printf("%s", label).  label *)
(* has FILE_HEADER_LEN+1 bytes and the last is never set: if the bytes     *)
(* read hold no NUL, printf runs into it, and prints on or faults.         *)
DiskReadOpen ==
    /\ Alive /\ disk.pc = "open" /\ ~cancel
    /\ cfg.io = CFG_PLAYBACK
    /\ LET r == Min(FILE_HEADER_LEN, Len(file))
           label == SubSeq(file, 1, r)
       IN  IF r < FILE_HEADER_LEN
           THEN /\ status' = [status EXCEPT !.stop = 1]
                /\ disk' = [disk EXCEPT !.pc = "returned", !.r = r]
                /\ file_pos' = r
           ELSE /\ \E outcome \in (IF \E k \in 1..r : label[k] = 0
                                   THEN {"printed"} ELSE {"printed", "fault"}) :
                      disk' = [disk EXCEPT
                                  !.pc = IF outcome = "printed" THEN "lock" ELSE "crash",
                                  !.r = r]
                /\ file_pos' = r
                /\ UNCHANGED status
    /\ UNCHANGED <<cfg, nframes, partial_io, buffer, wr_total, rd_total,
                   disk_mutex, cancel, file, jack, cbd, main_pc, played, hist>>

(* one test of the loop of disk_read, up to the read or the wait;         *)
(* the mutex is held throughout                                           *)
DiskReadLoop ==
    /\ Alive /\ disk.pc = "loop"
    /\ cfg.io = CFG_PLAYBACK
    /\ LET available == jack_ringbuffer_write_space(buffer)
           veclen == WriteVectorLen(buffer)
           l == ChunkLen(veclen, cfg.blocksize)
       IN  IF status.stop # 0
           THEN /\ disk' = [disk EXCEPT !.pc = "unlock"]
                /\ UNCHANGED <<status, disk_mutex>>
           ELSE IF available > 0
           THEN IF veclen = 0
                THEN UNCHANGED <<disk, status, disk_mutex>>
                ELSE /\ status' = [status EXCEPT !.disk_io = @ + 1,
                                                 !.disk_bytes = @ + l]
                     /\ disk' = [disk EXCEPT !.pc = "io", !.l = l]
                     /\ UNCHANGED disk_mutex
           ELSE /\ disk' = [disk EXCEPT !.pc = "sleep"]
                /\ UNCHANGED <<status, disk_mutex>>
    /\ UNCHANGED <<cfg, nframes, partial_io, buffer, wr_total, rd_total,
                   cancel, file, file_pos, jack, cbd, main_pc, played, hist>>

(* r = read(fd, vec[0].buf, l): at most what the file still holds *)
DiskReadFile ==
    /\ Alive /\ disk.pc = "io" /\ ~cancel
    /\ cfg.io = CFG_PLAYBACK
    /\ LET left == Len(file) - file_pos
           most == Min(disk.l, left)
       IN  \E r \in (IF most > 0 /\ partial_io > 0 THEN 1..most ELSE {most}) :
              /\ buffer' = [buffer EXCEPT !.buf =
                               BufStore(buffer, buffer.write_ptr,
                                        SubSeq(file, file_pos + 1, file_pos + r))]
              /\ file_pos' = file_pos + r
              /\ disk' = [disk EXCEPT !.pc = "adv", !.r = r]
              /\ partial_io' = IF r < most THEN partial_io - 1 ELSE partial_io
    /\ UNCHANGED <<cfg, nframes, status, wr_total, rd_total,
                   disk_mutex, cancel, file, jack, cbd, main_pc, played, hist>>

(* if (r != l) { if (r == 0) { eof = 1; break; } } else write_advance(l) *)
DiskReadAdvance ==
    /\ Alive /\ disk.pc = "adv"
    /\ cfg.io = CFG_PLAYBACK
    /\ IF disk.r # disk.l
       THEN IF disk.r = 0
            THEN /\ status' = [status EXCEPT !.eof = 1]
                 /\ disk' = [disk EXCEPT !.pc = "unlock"]
                 /\ UNCHANGED <<buffer, wr_total>>
            ELSE /\ disk' = [disk EXCEPT !.pc = "loop"]
                 /\ UNCHANGED <<status, buffer, wr_total>>
       ELSE /\ buffer' = jack_ringbuffer_write_advance(buffer, disk.l)
            /\ wr_total' = wr_total + disk.l
            /\ disk' = [disk EXCEPT !.pc = "loop"]
            /\ UNCHANGED status
    /\ UNCHANGED <<cfg, nframes, partial_io, rd_total, disk_mutex, cancel,
                   file, file_pos, jack, cbd, main_pc, played, hist>>

(* --------------- the wait and the end of either thread body ------------ *)
(* pthread_cond_wait(&disk_cond, &disk_mutex) is entered: the mutex is     *)
(* released and the thread blocks                                          *)
DiskWait ==
    /\ Alive /\ disk.pc = "sleep" /\ ~cancel
    /\ disk_mutex' = "free"
    /\ disk' = [disk EXCEPT !.pc = "wait"]
    /\ UNCHANGED <<cfg, nframes, partial_io, status, buffer, wr_total, rd_total,
                   cancel, file, file_pos, jack, cbd, main_pc, played, hist>>

(* pthread_cond_wait returning: the mutex is taken again *)
DiskWake ==
    /\ Alive /\ disk.pc = "wake"
    /\ disk_mutex = "free"
    /\ disk_mutex' = "disk"
    /\ disk' = [disk EXCEPT !.pc = "loop"]
    /\ UNCHANGED <<cfg, nframes, partial_io, status, buffer, wr_total, rd_total,
                   cancel, file, file_pos, jack, cbd, main_pc, played, hist>>

(* pthread_mutex_unlock(&disk_mutex) after the loop *)
DiskUnlock ==
    /\ Alive /\ disk.pc = "unlock"
    /\ disk_mutex' = "free"
    /\ disk' = [disk EXCEPT !.pc = "close"]
    /\ UNCHANGED <<cfg, nframes, partial_io, status, buffer, wr_total, rd_total,
                   cancel, file, file_pos, jack, cbd, main_pc, played, hist>>

(* close(fd); pthread_exit(NULL) *)
DiskClose ==
    /\ Alive /\ disk.pc = "close" /\ ~cancel
    /\ disk' = [disk EXCEPT !.pc = "done"]
    /\ UNCHANGED <<cfg, nframes, partial_io, status, buffer, wr_total, rd_total,
                   disk_mutex, cancel, file, file_pos, jack, cbd, main_pc, played, hist>>

(* The cancellation request of stop_io acts when the thread is in, or      *)
(* enters, a cancellation point: open, read, write, close and              *)
(* pthread_cond_wait.  A thread cancelled in pthread_cond_wait takes the   *)
(* mutex again before it ends, and ends holding it.                        *)
DiskCancelled ==
    /\ Alive /\ cancel
    /\ disk.pc \in {"open", "io", "close", "sleep", "wait", "wake"}
    /\ IF disk.pc \in {"wait", "wake"}
       THEN /\ disk_mutex = "free"
            /\ disk_mutex' = "disk"
       ELSE UNCHANGED disk_mutex
    /\ disk' = [disk EXCEPT !.pc = "cancelled"]
    /\ UNCHANGED <<cfg, nframes, partial_io, status, buffer, wr_total, rd_total,
                   cancel, file, file_pos, jack, cbd, main_pc, played, hist>>

(* -------------------------------- main --------------------------------- *)
(* setup_jack up to jack_activate: cbd is allocated with ready = 0, the     *)
(* client is opened, the process callback is set and the client activated. *)
(* From here on JACK invokes the callback.                                  *)
SetupJack ==
    /\ Alive /\ main_pc = "setup"
    /\ jack' = [jack EXCEPT !.active = TRUE]
    /\ cbd' = [cbd EXCEPT !.ready = 0, !.ports = 0]
    /\ main_pc' = "ports"
    /\ UNCHANGED <<cfg, nframes, partial_io, status, buffer, wr_total, rd_total,
                   disk_mutex, disk, cancel, file, file_pos, played, hist>>

(* One turn of the loop of setup_jack over the ports, and what follows the *)
(* loop when the turn ends it.  "registered": the port is registered, its  *)
(* handle stored and, with a list of ports to connect to, connected.       *)
(* "noport": jack_port_register fails: error = 1, break.  "noconnect":     *)
(* the handle is stored and jack_connect fails: break, and the error = 1   *)
(* behind the break is never executed.  After the loop ready is set unless *)
(* error is, and setup_jack returns to main, which goes on to its loop.    *)
SetupPort ==
    /\ Alive /\ main_pc = "ports"
    /\ \E outcome \in {"registered"} \cup ({jack.refuse} \ {"none"}) :
          LET stored == IF outcome = "noport" THEN cbd.ports ELSE cbd.ports + 1
              last == outcome # "registered" \/ stored = cfg.ports
              error == IF outcome = "noport" THEN 1 ELSE 0
          IN  /\ cbd' = [cbd EXCEPT
                            !.ports = stored,
                            !.ready = IF last /\ error = 0 THEN 1 ELSE @]
              /\ main_pc' = IF last THEN "run" ELSE "ports"
              /\ hist' = [hist EXCEPT
                             !.setup = IF outcome = "registered" THEN @ ELSE outcome]
    /\ UNCHANGED <<cfg, nframes, partial_io, status, buffer, wr_total, rd_total,
                   disk_mutex, disk, cancel, file, file_pos, jack, played>>

(* while (status.stop == 0) sleep(1): the loop is left *)
MainLoop ==
    /\ Alive /\ main_pc = "run"
    /\ status.stop # 0
    /\ main_pc' = "cleanup"
    /\ UNCHANGED <<cfg, nframes, partial_io, status, buffer, wr_total, rd_total,
                   disk_mutex, disk, cancel, file, file_pos, jack, cbd, played, hist>>

(* cleanup_jack: jack_client_close, once the callback in progress is over *)
CleanupJack ==
    /\ Alive /\ main_pc = "cleanup"
    /\ jack.pc = "idle"
    /\ jack' = [jack EXCEPT !.active = FALSE]
    /\ main_pc' = "stop_io"
    /\ UNCHANGED <<cfg, nframes, partial_io, status, buffer, wr_total, rd_total,
                   disk_mutex, disk, cancel, file, file_pos, cbd, played, hist>>

StopIoNoCancel ==
    /\ Alive /\ main_pc = "stop_io"
    /\ disk' = TryNotify(disk)
    /\ main_pc' = "join"
    /\ UNCHANGED <<cfg, nframes, partial_io, status, buffer, wr_total, rd_total,
                   disk_mutex, cancel, file, file_pos, jack, cbd, played, hist>>

(* stop_io up to the join: trylock, signal, unlock; pthread_cancel *)
StopIo ==
    /\ Alive /\ main_pc = "stop_io"
    /\ disk' = TryNotify(disk)
    /\ cancel' = TRUE
    /\ main_pc' = "join"
    /\ UNCHANGED <<cfg, nframes, partial_io, status, buffer, wr_total, rd_total,
                   disk_mutex, file, file_pos, jack, cbd, played, hist>>

(* pthread_join(disk_thread) returns and main returns *)
Join ==
    /\ Alive /\ main_pc = "join"
    /\ disk.pc \in Terminated
    /\ main_pc' = "exit"
    /\ UNCHANGED <<cfg, nframes, partial_io, status, buffer, wr_total, rd_total,
                   disk_mutex, disk, cancel, file, file_pos, jack, cbd, played, hist>>

(* --------------------------- signal handlers --------------------------- *)
(* what a capture has committed to the ring when stop is first set *)
StopMark(m) ==
    IF cfg.io = CFG_CAPTURE /\ status.stop = 0 THEN wr_total ELSE m

signal_handler_counting ==
    /\ Alive
    /\ status' = [status EXCEPT !.stop = @ + 1]
    /\ disk' = TryNotify(disk)
    /\ hist' = [hist EXCEPT !.mark = StopMark(@)]
    /\ UNCHANGED <<cfg, nframes, partial_io, buffer, wr_total, rd_total,
                   disk_mutex, cancel, file, file_pos, jack, cbd, main_pc, played>>

(* SIGTERM, SIGINT, SIGHUP *)
signal_handler ==
    /\ Alive
    /\ status' = [status EXCEPT !.stop = 1]
    /\ disk' = TryNotify(disk)
    /\ hist' = [hist EXCEPT !.mark = StopMark(@)]
    /\ UNCHANGED <<cfg, nframes, partial_io, buffer, wr_total, rd_total,
                   disk_mutex, cancel, file, file_pos, jack, cbd, main_pc, played>>

(* SIGALRM *)
timeout_handler ==
    /\ Alive
    /\ status' = [status EXCEPT !.stop = 1]
    /\ hist' = [hist EXCEPT !.mark = StopMark(@)]
    /\ UNCHANGED <<cfg, nframes, partial_io, buffer, wr_total, rd_total, disk,
                   disk_mutex, cancel, file, file_pos, jack, cbd, main_pc, played>>

(* ------------------------------- replay -------------------------------- *)
(* After a capture process has exited, jack_cat -p is run on its file with *)
(* the same port count, sizes and period.  The captures replayed are the   *)
(* ones without overflow and without a short write.                        *)
Replay ==
    /\ main_pc = "exit"
    /\ hist.session = "capture"
    /\ status.overflows = 0
    /\ hist.short = 0
    /\ cfg' = [cfg EXCEPT !.io = CFG_PLAYBACK]
    /\ status' = InitStatus
    /\ buffer' = jack_ringbuffer_create(cfg.rbsize)
    /\ wr_total' = 0
    /\ rd_total' = 0
    /\ disk_mutex' = "free"
    /\ disk' = [pc |-> "open", l |-> 0, r |-> 0]
    /\ cancel' = FALSE
    /\ file_pos' = 0
    /\ jack' = [active |-> FALSE, pc |-> "idle", space |-> 0,
                early |-> 0, refuse |-> "none"]
    /\ cbd' = [ready |-> 0, ports |-> 0, buf |-> ZeroFill]
    /\ main_pc' = "setup"
    /\ played' = << >>
    /\ hist' = [hist EXCEPT !.session = "replay", !.calls = status.jack_calls,
                            !.mark = -1, !.setup = "ok"]
    /\ UNCHANGED <<nframes, partial_io, file>>

(* ----------------------------- specification --------------------------- *)
Next ==
    \/ JackCaptureProcess
    \/ JackPlaybackProcess
    \/ JackNotify
    \/ DiskWriteOpen
    \/ DiskReadOpen
    \/ DiskLock
    \/ DiskWriteLoop
    \/ DiskWriteFile
    \/ DiskWriteAdvance
    \/ DiskReadLoop
    \/ DiskReadFile
    \/ DiskReadAdvance
    \/ DiskWait
    \/ DiskWake
    \/ DiskUnlock
    \/ DiskClose
    \/ DiskCancelled
    \/ SetupJack
    \/ SetupPort
    \/ MainLoop
    \/ CleanupJack
    \/ StopIo
    \/ Join
    \/ signal_handler
    \/ timeout_handler
    \/ Replay

Spec == Init /\ [][Next]_vars

(* Captures with every port count the program accepts, each followed by    *)
(* the playback of its file: -n 1 .. -n MAX_PORTS with the default sizes   *)
(* of this model.                                                          *)
HdrInit ==
    \E ports \in 1..MAX_PORTS :
        Session(CFG_CAPTURE, ports, 16, 16, 1, 0, QuietSetup, << >>,
                [session |-> "capture", accepted |-> << >>, calls |-> 0,
                 short |-> 0, header |-> 0, mark |-> -1, setup |-> "ok"])

HdrSpec == HdrInit /\ [][Next]_vars

(* The threads run: main and the disk thread are scheduled whenever they   *)
(* can take a step, and a callback that has reached its trylock finishes.  *)
(* Nothing is assumed about signals, about JACK starting a process cycle   *)
(* or about a second run of the program.                                   *)
Fairness ==
    /\ WF_vars(SetupJack) /\ WF_vars(SetupPort) /\ WF_vars(MainLoop)
    /\ WF_vars(CleanupJack) /\ WF_vars(StopIo) /\ WF_vars(Join)
    /\ WF_vars(JackNotify)
    /\ WF_vars(DiskWriteOpen) /\ WF_vars(DiskReadOpen) /\ WF_vars(DiskLock)
    /\ WF_vars(DiskWriteLoop) /\ WF_vars(DiskWriteFile)
    /\ WF_vars(DiskWriteAdvance) /\ WF_vars(DiskReadLoop)
    /\ WF_vars(DiskReadFile) /\ WF_vars(DiskReadAdvance)
    /\ WF_vars(DiskWait) /\ WF_vars(DiskWake) /\ WF_vars(DiskUnlock)
    /\ WF_vars(DiskClose) /\ WF_vars(DiskCancelled)

(* the sessions with one port, a period of one frame and the large ring *)
LiveInit == Sessions({1}, {1}, {16}, 0..MaxFileFrames)

LiveSpec == LiveInit /\ [][Next]_vars /\ Fairness

(* The captures with two ports, a period of two frames and a ring that     *)
(* holds a period and more.                                                *)
WideInit == Sessions({2}, {2}, {32}, {})

WideSpec == WideInit /\ [][Next]_vars

(* ------------------------------ the claims ----------------------------- *)
Used == wr_total - rd_total

(* the bytes the ring can hold: one less than its size *)
Capacity == buffer.size - 1

CanHoldPeriod == Capacity >= PeriodBytes

(* The capture callback finds too little room on every call and returns    *)
(* before its trylock, while the disk writer sleeps in pthread_cond_wait   *)
(* with bytes to write: only a signal handler or stop_io can end this.     *)
CaptureStuck ==
    /\ cfg.io = CFG_CAPTURE /\ CanHoldPeriod
    /\ main_pc = "run" /\ jack.active /\ jack.pc = "idle"
    /\ status.stop = 0
    /\ disk.pc = "wait"
    /\ jack_ringbuffer_read_space(buffer) > 0
    /\ jack_ringbuffer_write_space(buffer) < PeriodBytes

(* C1: in capture, with a ring that can hold a period, a wake-up the       *)
(* callback skipped never leaves readable bytes that the disk writer will  *)
(* not transfer: the state in which the writer sleeps on readable bytes    *)
(* and no later callback can signal it is never reached.                   *)
C1_NoCaptureDeadlock == ~CaptureStuck

(* Once the capture is stuck it stays stuck until stop is set. *)
CaptureStuckStays ==
    [][CaptureStuck => (CaptureStuck' \/ status'.stop = 1)]_vars

(* The playback callback finds less than a period on every call and        *)
(* returns before its trylock, while the disk reader sleeps in             *)
(* pthread_cond_wait: the end-of-file flag is never set.                   *)
PlaybackStuck ==
    /\ cfg.io = CFG_PLAYBACK /\ CanHoldPeriod
    /\ main_pc = "run" /\ jack.active /\ jack.pc = "idle"
    /\ status.stop = 0 /\ status.eof = 0
    /\ disk.pc = "wait"
    /\ jack_ringbuffer_read_space(buffer) < PeriodBytes

(* C2: playback of a finite file with a valid header, with a ring that can *)
(* hold a period, always ends: the state in which the disk reader sleeps   *)
(* with end of file not yet seen and no later callback can signal it is    *)
(* never reached.                                                          *)
C2_PlaybackEnds == ~PlaybackStuck

(* Once the playback is stuck it stays stuck until stop is set. *)
PlaybackStuckStays ==
    [][PlaybackStuck => (PlaybackStuck' \/ status'.stop = 1)]_vars

(* C3: in capture, when a signal handler has set the stop flag and the     *)
(* disk writer has left its loop, the writer has taken out of the ring      *)
(* every byte the callback had put in before the flag was set.              *)
C3_DrainBeforeExit ==
    (/\ cfg.io = CFG_CAPTURE
     /\ hist.mark >= 0
     /\ disk.pc \in {"unlock", "close", "done"})
        => rd_total >= hist.mark

(* The interleaved sample sequence the capture took in: every period the   *)
(* callback was invoked with, none refused.                                *)
Original == FrameData(hist.calls * nframes, cfg.ports)

(* The replay has come to the end of the data: the disk reader has seen    *)
(* the end of the file and the callback has stopped the playback.          *)
ReplayEnded ==
    /\ hist.session = "replay"
    /\ status.eof = 1 /\ status.stop = 1
    /\ ~jack.active /\ main_pc = "run"

(* C4: when a capture without overflow has left a file holding the header  *)
(* and every captured frame, the replay of that file that runs to the end  *)
(* of the data has delivered to the ports exactly the captured sequence.   *)
C4_RoundTrip ==
    (ReplayEnded /\ file = HeaderBytes(cfg.ports) \o Original)
        => played = Original

(* C5: in capture and in playback the bytes in the ring, counted from the  *)
(* cursors' cumulative advances, are never fewer than none nor more than   *)
(* the capacity, and the readable space the ring reports is that count.    *)
C5_UsedWithinCapacity ==
    /\ 0 <= Used
    /\ Used <= Capacity
    /\ jack_ringbuffer_read_space(buffer) = Used
    /\ jack_ringbuffer_write_space(buffer) = Capacity - Used

(* the disk reader has filled the ring to its capacity *)
C5_RingFull ==
    /\ cfg.io = CFG_PLAYBACK
    /\ Used = Capacity
    /\ rd_total = 0
    /\ disk.pc = "loop"

(* the disk writer has emptied a ring the callback had written to *)
C5_RingDrained ==
    /\ cfg.io = CFG_CAPTURE
    /\ Used = 0 /\ wr_total > 0
    /\ disk.pc = "loop"

(* C6: a callback that has reached its trylock always completes, whoever   *)
(* holds the mutex, and its completion wakes the disk thread only when the *)
(* mutex was free, leaving the disk thread untouched otherwise.            *)
C6_CallbackNeverWaits ==
    /\ []((jack.pc = "notify" /\ Alive) => ENABLED JackNotify)
    /\ [][(jack.pc = "notify" /\ jack'.pc = "idle") =>
             /\ disk_mutex' = disk_mutex
             /\ IF disk_mutex = "free" /\ disk.pc = "wait"
                THEN disk' = [disk EXCEPT !.pc = "wake"]
                ELSE disk' = disk]_vars

(* a callback is at its trylock while the disk thread holds the mutex for  *)
(* a transfer                                                              *)
C6_NotifyWhileDiskBusy ==
    /\ jack.pc = "notify" /\ Alive
    /\ disk_mutex = "disk" /\ disk.pc = "io"

(* a step that is an invocation of the capture callback, run to its        *)
(* trylock or to its return                                                *)
CaptureCall ==
    /\ cfg.io = CFG_CAPTURE /\ status'.jack_calls = status.jack_calls + 1
    /\ jack'.pc # "crash"

(* C7: a capture callback invoked with exactly a period of writable space  *)
(* puts the whole period, interleaved, into the ring and counts no         *)
(* overflow; invoked with one byte less it counts one overflow and leaves  *)
(* the ring as it was.                                                     *)
C7_CaptureBoundary ==
    [][CaptureCall =>
         /\ (jack_ringbuffer_write_space(buffer) = PeriodBytes =>
                /\ status'.overflows = status.overflows
                /\ wr_total' = wr_total + PeriodBytes
                /\ rd_total' = rd_total
                /\ jack_ringbuffer_write_space(buffer') = 0
                /\ BufBytes(buffer', buffer.write_ptr, PeriodBytes)
                       = Interleaved([i \in 0..(cfg.ports - 1) |->
                                        InputBuffer(status'.jack_calls, i)]))
         /\ (jack_ringbuffer_write_space(buffer) = PeriodBytes - 1 =>
                /\ status'.overflows = status.overflows + 1
                /\ buffer' = buffer
                /\ wr_total' = wr_total)]_vars

(* the capture callback has just accepted a period that fitted exactly *)
C7_ExactFitAccepted ==
    /\ cfg.io = CFG_CAPTURE
    /\ jack.pc = "notify"
    /\ jack.space = PeriodBytes
    /\ jack_ringbuffer_write_space(buffer) = 0
    /\ status.overflows = 0

(* the capture callback has just refused a period for one byte *)
C7_OneByteShort ==
    /\ cfg.io = CFG_CAPTURE
    /\ jack.space = PeriodBytes - 1
    /\ status.overflows = 1

(* a step that is an invocation of the playback callback, run to its       *)
(* trylock or to its return                                                *)
PlaybackCall ==
    /\ cfg.io = CFG_PLAYBACK /\ status'.jack_calls = status.jack_calls + 1
    /\ jack'.pc # "crash"

(* C8: a playback callback invoked with exactly a period of readable bytes *)
(* hands the whole period to the ports and counts no underrun; invoked     *)
(* with one byte less it counts one underrun, fills every port buffer with *)
(* zeros and leaves the ring as it was.                                    *)
C8_PlaybackBoundary ==
    [][PlaybackCall =>
         /\ (jack_ringbuffer_read_space(buffer) = PeriodBytes =>
                /\ status'.underruns = status.underruns
                /\ rd_total' = rd_total + PeriodBytes
                /\ wr_total' = wr_total
                /\ jack_ringbuffer_read_space(buffer') = 0
                /\ Interleaved(cbd'.buf)
                       = BufBytes(buffer, buffer.read_ptr, PeriodBytes))
         /\ (jack_ringbuffer_read_space(buffer) = PeriodBytes - 1 =>
                /\ status'.underruns = status.underruns + 1
                /\ \A i \in 0..(cfg.ports - 1) : \A f \in 1..nframes :
                       cbd'.buf[i][f] = [b \in 1..SampleSize |-> 0]
                /\ buffer' = buffer
                /\ rd_total' = rd_total)]_vars

(* the playback callback has just consumed a period that was all the ring  *)
(* held                                                                    *)
C8_ExactPeriodConsumed ==
    /\ cfg.io = CFG_PLAYBACK
    /\ jack.pc = "notify"
    /\ jack.space = PeriodBytes
    /\ Used = 0
    /\ played # << >>
    /\ status.underruns = 0

(* the playback callback has just underrun for one byte *)
C8_OneByteShort ==
    /\ cfg.io = CFG_PLAYBACK
    /\ jack.space = PeriodBytes - 1
    /\ status.underruns = 1
    /\ played # << >>
    /\ \A i \in 0..(cfg.ports - 1) : \A f \in 1..nframes :
           cbd.buf[i][f] = [b \in 1..SampleSize |-> 0]
    /\ Used = PeriodBytes - 1

(* C9: for every port count the header the disk writer has put at the      *)
(* start of the file has FILE_HEADER_LEN bytes, and the disk reader that   *)
(* has consumed the header of that file stands at the end of the header    *)
(* the writer wrote.                                                       *)
C9_HeaderFixedLength ==
    /\ (hist.session = "capture" /\ disk.pc = "lock")
          => Len(file) = FILE_HEADER_LEN
    /\ (hist.session = "replay" /\ disk.pc = "lock")
          => file_pos = hist.header

(* the frames in the file being played, and the bytes of those left over   *)
(* after the last whole period                                             *)
FileFrames == (Len(file) - hist.header) \div (cfg.ports * SampleSize)

TailBytes == (FileFrames % nframes) * cfg.ports * SampleSize

(* The playback of a file has come to the end of the data: the disk reader *)
(* has seen the end of the file and the callback has stopped the playback. *)
PlaybackEnded ==
    /\ hist.session = "playback"
    /\ status.eof = 1 /\ status.stop = 1
    /\ ~jack.active /\ main_pc = "run"

(* C10: when the playback of a file whose frame count is not a multiple of *)
(* the period has come to the end of the data, the port buffers of the     *)
(* last invocation carry the frames left over after the last whole period, *)
(* followed by silence.                                                    *)
C10_PartialLastPeriod ==
    (PlaybackEnded /\ TailBytes > 0) =>
        Interleaved(cbd.buf)
            = SubSeq(file, Len(file) - TailBytes + 1, Len(file))
                 \o [j \in 1..(PeriodBytes - TailBytes) |-> 0]

(* C11: in a capture the only step that writes the header is the first     *)
(* write to the file, and every later write appends bytes taken from the   *)
(* ring; in a playback the only read of the header is the first read of    *)
(* the file, made while the ring is empty and nothing has reached a port,  *)
(* and every byte put into the ring is read from behind the header.        *)
C11_HeaderOnceAndFirst ==
    /\ []((cfg.io = CFG_PLAYBACK /\ (wr_total > 0 \/ played # << >>))
             => file_pos >= FILE_HEADER_LEN)
    /\ []((cfg.io = CFG_CAPTURE /\ rd_total > 0)
             => SubSeq(file, 1, hist.header) = HeaderText(cfg.ports) \o <<0>>)
    /\ [][file' # file =>
             IF disk.pc = "open"
             THEN /\ cfg.io = CFG_CAPTURE
                  /\ file = << >>
                  /\ file' = HeaderText(cfg.ports) \o <<0>>
                  /\ rd_total = 0
             ELSE /\ cfg.io = CFG_CAPTURE
                  /\ disk.pc = "io"
                  /\ Len(file) >= hist.header /\ hist.header > 0
                  /\ Len(file') > Len(file)
                  /\ file' = file \o BufBytes(buffer, buffer.read_ptr,
                                               Len(file') - Len(file))]_vars
    /\ [][file_pos' # file_pos =>
             IF disk.pc = "open"
             THEN /\ cfg.io = CFG_PLAYBACK
                  /\ file_pos = 0
                  /\ file_pos' = Min(FILE_HEADER_LEN, Len(file))
                  /\ wr_total = 0 /\ played = << >>
                  /\ buffer' = buffer
             ELSE /\ cfg.io = CFG_PLAYBACK
                  /\ disk.pc = "io"
                  /\ file_pos >= FILE_HEADER_LEN
                  /\ file_pos' > file_pos]_vars

(* a capture has written frame bytes behind its header *)
C11_DataBehindHeader ==
    /\ cfg.io = CFG_CAPTURE
    /\ hist.header = FILE_HEADER_LEN
    /\ Len(file) > hist.header
    /\ rd_total > 0

(* a playback has handed frame bytes to the ports *)
C11_PlayedBehindHeader ==
    /\ cfg.io = CFG_PLAYBACK
    /\ played # << >>
    /\ file_pos > FILE_HEADER_LEN

(* C12: once a connection of a registered port has failed during setup,    *)
(* the callback data is never marked ready and main never is in its loop   *)
(* with the callback active.                                               *)
C12_ConnectFailureIsFatal ==
    hist.setup = "noconnect" =>
        /\ cbd.ready = 0
        /\ ~(main_pc = "run" /\ jack.active)

(* the process has been ended by a fault *)
Crashed == disk.pc = "crash" \/ jack.pc = "crash"

(* C13: once the stop flag is set, main returns from stop_io, and when it  *)
(* has, the disk thread has ended: it left its function or was cancelled.  *)
C13_ShutdownCompletes ==
    /\ [](main_pc = "exit" => (status.stop = 1 /\ disk.pc \in Terminated))
    /\ ((status.stop = 1 /\ ~Crashed) ~> (main_pc = "exit" \/ Crashed))

(* main has joined a disk thread that was cancelled in pthread_cond_wait   *)
(* or in a transfer                                                        *)
C13_JoinedCancelled ==
    /\ main_pc = "exit"
    /\ status.stop = 1
    /\ disk.pc = "cancelled"
    /\ disk_mutex = "disk"

(* C14: a termination signal delivered when the stop flag is already set   *)
(* changes no flag, no counter, no cursor and no byte of the ring or the   *)
(* file; all it can do is wake the disk thread, and a disk thread that     *)
(* wakes or tests its loop with the stop flag set moves on without a       *)
(* transfer.                                                               *)
C14_SecondSignalNoEffect ==
    /\ [][(status.stop = 1 /\ signal_handler) =>
             /\ status' = status
             /\ buffer' = buffer
             /\ wr_total' = wr_total /\ rd_total' = rd_total
             /\ file' = file /\ file_pos' = file_pos
             /\ played' = played
             /\ disk' \in {disk, [disk EXCEPT !.pc = "wake"]}]_vars
    /\ [][(status.stop = 1 /\ disk.pc \in {"wake", "loop"}
               /\ disk'.pc # disk.pc) =>
             /\ status' = status
             /\ buffer' = buffer
             /\ wr_total' = wr_total /\ rd_total' = rd_total
             /\ file' = file /\ file_pos' = file_pos
             /\ disk'.pc \in {"loop", "unlock", "cancelled"}]_vars

(* a signal has set the stop flag without waking the disk thread, which    *)
(* now waits with the mutex free: the next signal wakes it                 *)
C14_SignalledStillWaiting ==
    /\ cfg.io = CFG_CAPTURE /\ hist.mark >= 0
    /\ status.stop = 1
    /\ main_pc = "run" /\ jack.pc = "idle"
    /\ disk.pc = "wait" /\ disk_mutex = "free"
    /\ Used > 0

(* C15: in a capture whose ring cannot hold one period every invocation    *)
(* of the callback has overflowed, the ring is empty, the disk writer has  *)
(* transferred nothing and the file holds no frame data.                   *)
C15_TooSmallRingOverflows ==
    (cfg.io = CFG_CAPTURE /\ Capacity < PeriodBytes) =>
        /\ status.overflows = status.jack_calls
        /\ Used = 0 /\ wr_total = 0
        /\ jack_ringbuffer_read_space(buffer) = 0
        /\ status.disk_bytes = 0 /\ status.disk_io = 0
        /\ Len(file) = hist.header

(* the callback has been invoked several times on a ring one byte too      *)
(* small for a period, with the disk writer waiting                        *)
C15_OverflowedTwice ==
    /\ cfg.io = CFG_CAPTURE
    /\ Capacity = PeriodBytes - 1
    /\ status.jack_calls >= 2
    /\ status.overflows = status.jack_calls
    /\ disk.pc = "wait"

(* C16: the step of the disk writer that follows its write to the file     *)
(* advances the read cursor by the number of bytes the write returned.     *)
C16_ShortWriteAdvance ==
    [][(cfg.io = CFG_CAPTURE /\ disk.pc = "adv" /\ disk'.pc = "loop") =>
          /\ rd_total' = rd_total + disk.r
          /\ buffer' = jack_ringbuffer_read_advance(buffer, disk.r)]_vars

(* C17: the step of the disk reader that follows a read of fewer bytes     *)
(* than asked for, but not of none, advances the write cursor by the       *)
(* number of bytes read and leaves the end-of-file flag as it is unless    *)
(* the file is at its end.                                                 *)
C17_ShortReadAdvance ==
    [][(cfg.io = CFG_PLAYBACK /\ disk.pc = "adv" /\ disk'.pc # "adv"
           /\ 0 < disk.r /\ disk.r < disk.l) =>
          /\ wr_total' = wr_total + disk.r
          /\ buffer' = jack_ringbuffer_write_advance(buffer, disk.r)
          /\ (status'.eof = 1 => file_pos = Len(file))]_vars

(* the bytes by which the disk thread has advanced its cursor of the ring *)
DiskAdvanced == IF cfg.io = CFG_CAPTURE THEN rd_total ELSE wr_total

(* C20: when the disk thread is at the top of its loop or has left it,     *)
(* disk_bytes is the number of bytes by which it has advanced its cursor   *)
(* of the ring.                                                            *)
C20_DiskBytesAreAdvances ==
    disk.pc \in {"loop", "unlock", "close", "done"}
        => status.disk_bytes = DiskAdvanced

(* a step in which a callback uses the port handles: every invocation of   *)
(* the playback callback, and the invocations of the capture callback      *)
(* that do not overflow                                                    *)
HandlesUsed ==
    /\ status'.jack_calls = status.jack_calls + 1
    /\ (cfg.io = CFG_PLAYBACK \/ status'.overflows = status.overflows)

(* C19: a callback uses the port handles only when setup has registered    *)
(* every configured port and marked the callback data ready.               *)
C19_NoCallbackBeforeReady ==
    [][HandlesUsed => (cbd.ports = cfg.ports /\ cbd.ready = 1)]_vars

(* Byte k of the stream a capture has to keep: the periods the callback    *)
(* accepted, in the order of their invocations, each with the sample of    *)
(* frame f and channel c at sample index f * N + c.                        *)
ExpectedByte(k) ==
    LET j == (k - 1) \div SampleSize
        p == j \div (nframes * cfg.ports)
        f == (j % (nframes * cfg.ports)) \div cfg.ports
        c == j % cfg.ports
        a == hist.accepted[p + 1]
    IN  IF c < a.ports
        THEN DataBase + SampleSize * (((a.call - 1) * nframes + f) * cfg.ports + c)
                      + ((k - 1) % SampleSize)
        ELSE Garbage

ExpectedStream ==
    [k \in 1..(Len(hist.accepted) * PeriodBytes) |-> ExpectedByte(k)]

(* C18: in a capture without a short write, whenever the disk writer is    *)
(* not between its write and its advance of the read cursor, the frame     *)
(* data of the file followed by the readable bytes of the ring is the      *)
(* stream of the accepted periods.                                         *)
C18_CaptureStreamConserved ==
    (cfg.io = CFG_CAPTURE /\ partial_io = hist.short /\ disk.pc # "adv") =>
        SubSeq(file, hist.header + 1, Len(file))
            \o BufBytes(buffer, buffer.read_ptr, jack_ringbuffer_read_space(buffer))
          = ExpectedStream

(* a capture of two ports with frame data in the file and with readable    *)
(* bytes that wrap around the end of the ring                              *)
C18_WrappedAndWritten ==
    /\ cfg.io = CFG_CAPTURE /\ cfg.ports = 2 /\ nframes = 2
    /\ partial_io = hist.short /\ disk.pc # "adv"
    /\ Len(file) > hist.header
    /\ buffer.write_ptr < buffer.read_ptr
    /\ Len(hist.accepted) >= 2


=============================================================================
